---------------------------- MODULE Spec2Model ----------------------------
(***************************************************************************)
(* A model of Indexer (src/indexer.py): the module-level loading of the    *)
(* include files into CONTENT / HTACCESS_MAPPING, the recursive            *)
(* process_dir traversal that writes one index file per directory, and     *)
(* pretty_size.                                                            *)
(*                                                                         *)
(* Strings are TLA+ strings; Python's str operations are modelled on them  *)
(* character by character.  Byte counts are little-endian sequences of     *)
(* base-1024 digits ("limbs"), because the thresholds of pretty_size go    *)
(* up to 1024^5.                                                           *)
(***************************************************************************)
EXTENDS Integers, Sequences, FiniteSets, TLC

VARIABLES
    env,        \* the world outside the program: file tree, .htaccess, TOPDIR_UP
    opts,       \* the parsed command line (argparse namespace)
    CONTENT,    \* the dict that CONTENT, HTACCESS_MAPPING and FILES_OBJ all name
    stack,      \* the active process_dir calls, innermost last
    files,      \* the output file of every directory
    outcome,    \* "running", "done" (normal exit) or "crashed" (uncaught exception)
    f_bytes,    \* pretty_size, checked on its own: the argument
    result      \* pretty_size, checked on its own: the returned string

vars == <<env, opts, CONTENT, stack, files, outcome, f_bytes, result>>

(***************************************************************************)
(* Python str operations                                                   *)
(***************************************************************************)

\* The printable ASCII characters in code point order: 32 (space) to 95, and 97 to 126.
AsciiLow == " !\"#$%&'()*+,-./0123456789:;<=>?@ABCDEFGHIJKLMNOPQRSTUVWXYZ[\\]^_"

AsciiHigh == "abcdefghijklmnopqrstuvwxyz{|}~"

CodePoints == (32..95) \cup (97..126)

Chr(n) == IF n <= 95 THEN SubSeq(AsciiLow, n - 31, n - 31) ELSE SubSeq(AsciiHigh, n - 96, n - 96)

OrdTable == [c \in {Chr(n) : n \in CodePoints} |-> CHOOSE n \in CodePoints : Chr(n) = c]

Ord(c) == OrdTable[c]

At(s, i) == SubSeq(s, i, i)

StartsWith(s, p) == Len(p) <= Len(s) /\ SubSeq(s, 1, Len(p)) = p

\* sub in s
Contains(s, sub) ==
    \E i \in 1..(Len(s) - Len(sub) + 1) : SubSeq(s, i, i + Len(sub) - 1) = sub

LowerChar(c) == IF Ord(c) >= 65 /\ Ord(c) <= 90 THEN Chr(Ord(c) + 32) ELSE c

RECURSIVE Lower(_)
Lower(s) == IF s = "" THEN "" ELSE LowerChar(At(s, 1)) \o Lower(SubSeq(s, 2, Len(s)))

\* a < b for str: by code point, a proper prefix first
RECURSIVE StrLess(_, _)
StrLess(a, b) ==
    IF b = "" THEN FALSE
    ELSE IF a = "" THEN TRUE
    ELSE IF At(a, 1) # At(b, 1) THEN Ord(At(a, 1)) < Ord(At(b, 1))
    ELSE StrLess(SubSeq(a, 2, Len(a)), SubSeq(b, 2, Len(b)))

\* s.replace(old, new): every non-overlapping occurrence, left to right
RECURSIVE Replace(_, _, _)
Replace(s, old, new) ==
    IF Len(s) < Len(old) THEN s
    ELSE IF StartsWith(s, old) THEN new \o Replace(SubSeq(s, Len(old) + 1, Len(s)), old, new)
    ELSE At(s, 1) \o Replace(SubSeq(s, 2, Len(s)), old, new)

RECURSIVE LStrip(_, _)
LStrip(s, c) == IF s # "" /\ At(s, 1) = c THEN LStrip(SubSeq(s, 2, Len(s)), c) ELSE s

RECURSIVE RStrip(_, _)
RStrip(s, c) ==
    IF s # "" /\ At(s, Len(s)) = c THEN RStrip(SubSeq(s, 1, Len(s) - 1), c) ELSE s

Strip(s, c) == RStrip(LStrip(s, c), c)

\* s.split(): the maximal runs of non-blank characters
RECURSIVE SplitFrom(_, _)
SplitFrom(s, word) ==
    IF s = "" THEN (IF word = "" THEN <<>> ELSE <<word>>)
    ELSE IF At(s, 1) = " "
         THEN (IF word = "" THEN <<>> ELSE <<word>>) \o SplitFrom(SubSeq(s, 2, Len(s)), "")
         ELSE SplitFrom(SubSeq(s, 2, Len(s)), word \o At(s, 1))

Split(s) == SplitFrom(s, "")

\* sep.join(words)
RECURSIVE Join(_, _)
Join(sep, words) ==
    IF words = <<>> THEN ""
    ELSE IF Len(words) = 1 THEN words[1]
    ELSE words[1] \o sep \o Join(sep, Tail(words))

Digits == "0123456789"

\* str(n) for an int n >= 0
RECURSIVE Str(_)
Str(n) == IF n < 10 THEN At(Digits, n + 1) ELSE Str(n \div 10) \o At(Digits, (n % 10) + 1)

HexDigits == "0123456789ABCDEF"

QuoteSafe == "ABCDEFGHIJKLMNOPQRSTUVWXYZabcdefghijklmnopqrstuvwxyz0123456789_.-~/"

\* urllib.parse.quote(s) with its default safe="/"
RECURSIVE Quote(_)
Quote(s) ==
    IF s = "" THEN ""
    ELSE LET c == At(s, 1)
             q == IF Contains(QuoteSafe, c) THEN c
                  ELSE "%" \o At(HexDigits, (Ord(c) \div 16) + 1) \o At(HexDigits, (Ord(c) % 16) + 1)
         IN  q \o Quote(SubSeq(s, 2, Len(s)))

\* fnmatch of a name against a glob pattern made of literals, "*" and "?"
RECURSIVE GlobMatch(_, _)
GlobMatch(pat, name) ==
    IF pat = "" THEN name = ""
    ELSE IF At(pat, 1) = "*"
         THEN \/ GlobMatch(SubSeq(pat, 2, Len(pat)), name)
              \/ name # "" /\ GlobMatch(pat, SubSeq(name, 2, Len(name)))
    ELSE /\ name # ""
         /\ At(pat, 1) = "?" \/ At(pat, 1) = At(name, 1)
         /\ GlobMatch(SubSeq(pat, 2, Len(pat)), SubSeq(name, 2, Len(name)))

(***************************************************************************)
(* pretty_size                                                             *)
(***************************************************************************)

\* Byte counts are sequences of NLimbs base-1024 digits, least significant first.
Base == 1024

\* UNITS_MAPPING further down names 1024 ** 0 to 1024 ** 5; one more limb holds the rest.
NLimbs == 6 + 1

\* (st_size is a signed 64-bit off_t, so the top limb stays below 8.)

\* 1024 ** k
Pow1024(k) == [i \in 1..NLimbs |-> IF i = k + 1 THEN 1 ELSE 0]

\* a >= b for ints
RECURSIVE GeqFrom(_, _, _)
GeqFrom(a, b, i) ==
    IF i = 0 THEN TRUE
    ELSE IF a[i] # b[i] THEN a[i] > b[i]
    ELSE GeqFrom(a, b, i - 1)

Geq(a, b) == GeqFrom(a, b, NLimbs)

RECURSIVE Pow2(_)
Pow2(n) == IF n = 0 THEN 1 ELSE 2 * Pow2(n - 1)

RECURSIVE BitLen(_)
BitLen(n) == IF n = 0 THEN 0 ELSE 1 + BitLen(n \div 2)

TopIndex(b) == IF \A i \in 1..NLimbs : b[i] = 0 THEN 0
               ELSE CHOOSE i \in 1..NLimbs : b[i] # 0 /\ \A j \in (i + 1)..NLimbs : b[j] = 0

\* int.bit_length()
BitLength(b) == IF TopIndex(b) = 0 THEN 0 ELSE 10 * (TopIndex(b) - 1) + BitLen(b[TopIndex(b)])

\* b + 1024 ** (i - 1), carries propagated
RECURSIVE AddAt(_, _)
AddAt(b, i) ==
    IF i > NLimbs THEN b
    ELSE IF b[i] + 1 < Base THEN [b EXCEPT ![i] = b[i] + 1]
    ELSE AddAt([b EXCEPT ![i] = 0], i + 1)

\* The bits a C double keeps
MantissaBits == 53

\* The integer nearest to b that a double represents (round half to even).  With
\* b < 2^63 at most 10 bits are dropped, all of them in the lowest limb.
RoundToDouble(b) ==
    LET s    == BitLength(b) - MantissaBits
        low  == b[1] % Pow2(s)
        half == Pow2(s - 1)
        odd  == IF s = 10 THEN b[2] % 2 = 1 ELSE (b[1] \div Pow2(s)) % 2 = 1
        down == [b EXCEPT ![1] = b[1] - low]
        kept == b[1] - low + Pow2(s)
        up   == IF kept < Base THEN [b EXCEPT ![1] = kept] ELSE AddAt([b EXCEPT ![1] = 0], 2)
    IN  IF s <= 0 THEN b
        ELSE IF low > half \/ (low = half /\ odd) THEN up
        ELSE down

\* int(x) of the double x = d / 1024 ** k, d an integer a double represents
IntOfQuotient(d, k) == [i \in 1..NLimbs |-> IF i + k <= NLimbs THEN d[i + k] ELSE 0]

\* The value of an amount as a TLA+ integer (amounts are below 2^13).
IntOf(a) == a[1] + Base * a[2]

UNITS_MAPPING == <<
    [factor |-> 5, suffix |-> <<" PB">>],
    [factor |-> 4, suffix |-> <<" TB">>],
    [factor |-> 3, suffix |-> <<" GB">>],
    [factor |-> 2, suffix |-> <<" MB">>],
    [factor |-> 1, suffix |-> <<" KB">>],
    [factor |-> 0, suffix |-> <<" byte", " bytes">>] >>

\* for factor, suffix in units: if f_bytes >= factor: break
\* (the loop variables keep the last pair when nothing breaks)
UnitFor(b) ==
    LET hits == {i \in 1..Len(UNITS_MAPPING) : Geq(b, Pow1024(UNITS_MAPPING[i].factor))}
    IN  IF hits = {} THEN UNITS_MAPPING[Len(UNITS_MAPPING)]
        ELSE UNITS_MAPPING[CHOOSE i \in hits : \A j \in hits : i <= j]

\* amount = int(f_bytes / factor): a true (floating point) division, then truncation
Amount(b, unit) == IntOf(IntOfQuotient(RoundToDouble(b), unit.factor))

pretty_size(b) ==
    LET unit   == UnitFor(b)
        amount == Amount(b, unit)
        suffix == IF Len(unit.suffix) = 2
                  THEN (IF amount = 1 THEN unit.suffix[1] ELSE unit.suffix[2])
                  ELSE unit.suffix[1]
    IN  Str(amount) \o suffix

(***************************************************************************)
(* pretty_size on its own                                                  *)
(***************************************************************************)

LimbChoices == {0, 1, 8, 512, 1023}

\* The byte counts tried: every mix of small, middle and top digits below 2^61.
SizeInputs == {b \in [1..NLimbs -> LimbChoices] : b[NLimbs] <= 1}

(***************************************************************************)
(* Configuration (the module-level constants of indexer.py)                *)
(***************************************************************************)

DEFAULT_OUTPUT_FILE == "index.html"

INDEX_IGNORE == <<
    ".git", ".js", ".log", ".swp", "rescan", "rescan.txt",
    "LINKS", "CNAME", "README", "favicon.ico", "assets", "index.html", "robots.txt",
    "Gemfile", "Gemfile.lock", "404.html", "about.markdown", "index.markdown", "index.md",
    "scripts", "vendor" >>

CUSTOM_INDEX == <<
    [href |-> "LINKS", icon |-> "#folder-shortcut", name |-> "LINKS",
     description |-> "LINKS: other websites with scripts, repos and mirrors"] >>

SUBDIRS == << "/ARCHIVE" >>

SUBDIR_REPLACE == <<
    << "=\"assets/", "=\"../assets/" >>,
    << "README.md", "../README.md" >>,
    << "favicon.ico", "../favicon.ico" >> >>

(***************************************************************************)
(* The file tree                                                           *)
(*                                                                         *)
(* Node 0 is top_dir.  Every run holds top_dir and a subset of the other   *)
(* nodes (env.present).  kind is what lstat reports; a link's target is a  *)
(* node, or NoNode for a link whose target does not exist.                 *)
(***************************************************************************)

NoNode == 0 - 1

Bytes(n) == [i \in 1..NLimbs |-> IF i = 1 THEN n % Base ELSE IF i = 2 THEN n \div Base ELSE 0]

Dir(p, n)     == [parent |-> p, name |-> n, kind |-> "dir", target |-> NoNode,
                  size |-> Bytes(0), writable |-> TRUE, stat_ok |-> TRUE]
LockedDir(p, n) == [Dir(p, n) EXCEPT !.writable = FALSE]
File(p, n, b) == [parent |-> p, name |-> n, kind |-> "file", target |-> NoNode,
                  size |-> Bytes(b), writable |-> TRUE, stat_ok |-> TRUE]
Link(p, n, t) == [parent |-> p, name |-> n, kind |-> "link", target |-> t,
                  size |-> Bytes(0), writable |-> TRUE, stat_ok |-> TRUE]

\* The directory the program is started in and given as top_dir (os.getcwd()).
WORKDIR == "/srv/www"

SCRIPTDIR == "/opt/indexer"

Tree == <<
    Dir(0, "ARCHIVE"),                                  \*  1
    Dir(1, "old"),                                      \*  2
    Dir(0, "docs"),                                     \*  3
    File(3, "a.txt", 1),                                \*  4
    File(3, "htaccess", 0),                             \*  5
    File(0, "a.txt", 1536),                             \*  6
    File(0, ".env", 12),                                \*  7
    Dir(0, "_private"),                                 \*  8
    File(0, "README.md", 1024),                         \*  9
    File(0, "INDEX.HTML", 1023),                        \* 10
    Link(0, "b", NoNode),                               \* 11
    Link(0, "loop", 0),                                 \* 12
    File(0, "header", 2),                               \* 13
    LockedDir(0, "locked"),                             \* 14
    Dir(14, "sub"),                                     \* 15
    [File(0, "gone.txt", 0) EXCEPT !.stat_ok = FALSE],  \* 16
    Link(0, "z.lnk", 6)                                 \* 17
    >>

Nodes == 1..Len(Tree)

\* The index file a call has just created sits in the directory it lists.
IndexNode == Len(Tree) + 1

\* At most this many nodes besides top_dir in one run.
MaxNodes == 2

\* The number of symbolic links the system resolves in one path before it
\* answers ELOOP (40 on Linux).
SymlinkLimit == 1

Trees == {P \in SUBSET Nodes :
            /\ Cardinality(P) <= MaxNodes
            /\ \A n \in P : Tree[n].parent = 0 \/ Tree[n].parent \in P}

NodeOf(n) == IF n = IndexNode THEN File(NoNode, opts.output_file, 0) ELSE Tree[n]

\* str(path.absolute()) of top_dir / path[1] / ... : links are not resolved
RECURSIVE AbsPath(_)
AbsPath(path) ==
    IF path = <<>> THEN WORKDIR
    ELSE AbsPath(SubSeq(path, 1, Len(path) - 1)) \o "/" \o Tree[path[Len(path)]].name

\* path.name
RECURSIVE BaseName(_)
BaseName(s) == IF Contains(s, "/") THEN BaseName(SubSeq(s, 2, Len(s))) ELSE s

LinksIn(path) == Cardinality({i \in 1..Len(path) : NodeOf(path[i]).kind = "link"})

\* What stat (which follows links) finds at path / n: a node, 0 for top_dir, or
\* NoNode when the link dangles or the path holds too many links.
Resolve(path, n) ==
    LET e == NodeOf(n)
    IN  IF e.kind # "link" THEN n
        ELSE IF LinksIn(Append(path, n)) > SymlinkLimit THEN NoNode
        ELSE IF e.target = 0 THEN 0
        ELSE IF e.target \in env.present THEN e.target
        ELSE NoNode

is_symlink(path, n) == NodeOf(n).kind = "link"

is_dir(path, n) ==
    LET r == Resolve(path, n)
    IN  IF r = NoNode THEN FALSE ELSE IF r = 0 THEN TRUE ELSE NodeOf(r).kind = "dir"

is_file(path, n) ==
    LET r == Resolve(path, n)
    IN  IF r = NoNode \/ r = 0 THEN FALSE ELSE NodeOf(r).kind = "file"

\* os.access(str(entry), os.W_OK): follows links
access_W_OK(path, n) ==
    LET r == Resolve(path, n)
    IN  IF r = NoNode THEN FALSE ELSE IF r = 0 THEN TRUE ELSE NodeOf(r).writable

\* entry.stat() succeeds
stat_ok(path, n) ==
    LET r == Resolve(path, n)
    IN  IF r = NoNode THEN FALSE ELSE IF r = 0 THEN TRUE ELSE NodeOf(r).stat_ok

st_size(path, n) == NodeOf(Resolve(path, n)).size

\* open(index_path, 'w') succeeds in directory d
can_create(d) == IF d = 0 THEN env.top_creatable ELSE Tree[d].writable

\* The entries of directory d on disk, the index file just created among them.
Children(d) == {n \in env.present : Tree[n].parent = d} \cup {IndexNode}

\* path_top_dir.glob(glob_patt)
glob(d, glob_patt) == {n \in Children(d) : GlobMatch(glob_patt, NodeOf(n).name)}

(***************************************************************************)
(* Loading the include files (module level, before process_dir)            *)
(*                                                                         *)
(* HTACCESS_MAPPING = CONTENT = FILES_OBJ = {} binds the three names to    *)
(* ONE dict.  A dict is a function on its keys; a value is tagged with its *)
(* Python type.                                                            *)
(***************************************************************************)

PyStr(x)  == [t |-> "str",  s |-> x,  l |-> <<>>]
PyList(x) == [t |-> "list", s |-> "", l |-> x]
PyFile    == [t |-> "file", s |-> "", l |-> <<>>]
None      == [t |-> "None", s |-> "", l |-> <<>>]

EmptyDict == [k \in {} |-> None]

\* d[k] = v
DictSet(d, k, v) == [x \in (DOMAIN d) \cup {k} |-> IF x = k THEN v ELSE d[x]]

\* d.get(k)
DictGet(d, k) == IF k \in DOMAIN d THEN d[k] ELSE None

\* bool(v)
Truthy(v) == \/ v.t = "file"
             \/ v.t = "str" /\ v.s # ""
             \/ v.t = "list" /\ v.l # <<>>

INCLUDE_FILES == <<
    [name |-> "htaccess", path |-> WORKDIR \o "/.htaccess"],
    [name |-> "svg",      path |-> SCRIPTDIR \o "/indexer.svg"],
    [name |-> "header",   path |-> WORKDIR \o "/_includes/header.html"],
    [name |-> "footer",   path |-> WORKDIR \o "/_includes/footer1.html"] >>

\* What the three template files hold.
HeaderText == "<link href=\"assets/x.css\"><link rel=\"icon\" href=\"favicon.ico\">"
SvgText    == "<svg/>"
FooterText == "</html>"

FileText(name) == IF name = "svg" THEN SvgText
                  ELSE IF name = "header" THEN HeaderText
                  ELSE FooterText

\* The .htaccess files tried (readlines(), the line ends left out).
HtaccessFiles == {
    << "Options +Indexes",
       "AddDescription \"The docs copy\" docs/a.txt",
       "AddDescription \"A text file\" a.txt" >>,
    << "AddDescription \"Old releases\" www/ARCHIVE",
       "AddDescription a.txt" >> }

\* for line in CONTENT['htaccess']: if line.startswith('AddDescription'): ...
RECURSIVE AddDescriptions(_, _)
AddDescriptions(d, lines) ==
    IF lines = <<>> THEN d
    ELSE LET line  == Head(lines)
             words == Split(line)
             next  == IF StartsWith(line, "AddDescription")
                      THEN DictSet(d, words[Len(words)],
                                   PyStr(Join(" ", SubSeq(words, 2, Len(words) - 1))))
                      ELSE d
         IN  AddDescriptions(next, Tail(lines))

\* for f in INCLUDE_FILES: for name, path in f.items(): with open(path) as FILES_OBJ[path]: ...
RECURSIVE LoadFiles(_, _, _)
LoadFiles(d, includes, htaccess) ==
    IF includes = <<>> THEN d
    ELSE LET f      == Head(includes)
             opened == DictSet(d, f.path, PyFile)
             loaded == IF f.name = "htaccess"
                       THEN AddDescriptions(DictSet(opened, "htaccess", PyList(htaccess)), htaccess)
                       ELSE DictSet(opened, f.name, PyStr(FileText(f.name)))
         IN  LoadFiles(loaded, Tail(includes), htaccess)

\* The dict when process_dir is first called.
LoadContent(htaccess) ==
    LoadFiles(DictSet(EmptyDict, "custom_index", PyList(CUSTOM_INDEX)), INCLUDE_FILES, htaccess)

\* The second name of the same dict.
HTACCESS_MAPPING == CONTENT

(***************************************************************************)
(* process_dir                                                             *)
(*                                                                         *)
(* stack holds one frame per active call: path (the nodes from top_dir to  *)
(* the directory of the call, links unresolved), dir (the directory the    *)
(* path resolves to), go_up, sorted_entries, i (the entry the for loop is  *)
(* at) and pc: "open" at the start of the call, "loop" at the head of the  *)
(* for loop, "row" when the recursive call for entry i has returned.       *)
(* files maps the path of every call that opened its index_file to what    *)
(* the call wrote through it, item by item; two calls that reach the same  *)
(* directory through a link hold two handles on one file on disk.  The     *)
(* Modified column (st_mtime) and the verbose prints are left out.         *)
(***************************************************************************)

Mdash == "&mdash;"

Item(k, href, icon, name, description, order, size, text) ==
    [k |-> k, href |-> href, icon |-> icon, name |-> name, description |-> description,
     order |-> order, size |-> size, text |-> text]

Frame(path, dir) ==
    [path |-> path, dir |-> dir, go_up |-> FALSE, sorted_entries |-> <<>>, i |-> 1, pc |-> "open"]

Cur == stack[Len(stack)]

Entry == Cur.sorted_entries[Cur.i]

\* The call returns: to its caller, or the program ends.
Return ==
    /\ stack' = SubSeq(stack, 1, Len(stack) - 1)
    /\ outcome' = IF Len(stack) = 1 THEN "done" ELSE "running"

\* The for loop goes on to the next entry.
Continue == stack' = [stack EXCEPT ![Len(stack)].i = Cur.i + 1, ![Len(stack)].pc = "loop"]

\* any(i in f'{path_top_dir.absolute()}' for i in SUBDIRS)
InSubdirs(path) == \E i \in 1..Len(SUBDIRS) : Contains(AbsPath(path), SUBDIRS[i])

\* for old, new in SUBDIR_REPLACE: content['header'] = content['header'].replace(old, new)
RECURSIVE ReplaceAll(_, _)
ReplaceAll(s, pairs) ==
    IF pairs = <<>> THEN s
    ELSE ReplaceAll(Replace(s, Head(pairs)[1], Head(pairs)[2]), Tail(pairs))

\* for i in content['custom_index']: href = i.get('href'); if href: i.update(href = f'../{href}')
PrefixHrefs(custom) ==
    [j \in 1..Len(custom) |->
        IF custom[j].href # "" THEN [custom[j] EXCEPT !.href = "../" \o custom[j].href]
        ELSE custom[j]]

\* The subdir kludge, done in place on the dict the call was given.
Rewrite(content) ==
    [content EXCEPT
        !["header"] = PyStr(ReplaceAll(content["header"].s, SUBDIR_REPLACE)),
        !["custom_index"] = PyList(PrefixHrefs(content["custom_index"].l))]

\* go_up = False; if TOPDIR_UP: go_up = True; ... in the SUBDIRS branch: go_up = True
GoUp(path) == env.TOPDIR_UP \/ InSubdirs(path)

CustomRows(custom) ==
    [j \in 1..Len(custom) |->
        Item("custom", custom[j].href, custom[j].icon, custom[j].name,
             custom[j].description, "", Mdash, "")]

\* What the call writes before it lists the directory.
Preamble(content, go_up) ==
    (IF Truthy(content["header"])
     THEN <<Item("header", "", "", "", "", "", "", content["header"].s)>> ELSE <<>>)
    \o (IF Truthy(content["svg"])
        THEN <<Item("svg", "", "", "", "", "", "", content["svg"].s)>> ELSE <<>>)
    \o <<Item("up", IF go_up THEN ".." ELSE ".", "#go-up", "..", Mdash, "", Mdash, "")>>
    \o (IF Truthy(content["custom_index"]) THEN CustomRows(content["custom_index"].l) ELSE <<>>)

\* key=lambda p: (p.is_file(), p.name)
KeyLess(path, a, b) ==
    LET fa == is_file(path, a)
        fb == is_file(path, b)
    IN  (~fa /\ fb) \/ (fa = fb /\ StrLess(NodeOf(a).name, NodeOf(b).name))

RECURSIVE sorted(_, _)
sorted(path, S) ==
    IF S = {} THEN <<>>
    ELSE LET m == CHOOSE x \in S : \A y \in S \ {x} : KeyLess(path, x, y)
         IN  <<m>> \o sorted(path, S \ {m})

\* glob_patt = opts.filter or '*'
GlobPatt == IF opts.filter = "" THEN "*" ELSE opts.filter

\* entry.name.lower() == opts.output_file.lower()
IsOutputFile(name) == Lower(name) = Lower(opts.output_file)

\* IsIgnored with the ignore list matched by equality instead of containment.
IsIgnoredExact(name) ==
    \/ StartsWith(name, ".")
    \/ StartsWith(name, "_")
    \/ \E i \in 1..Len(INDEX_IGNORE) : name = INDEX_IGNORE[i]

\* entry.name.startswith('.') or entry.name.startswith('_') or any(i in entry.name for i in INDEX_IGNORE)
IsIgnored(name) ==
    \/ StartsWith(name, ".")
    \/ StartsWith(name, "_")
    \/ \E i \in 1..Len(INDEX_IGNORE) : Contains(name, INDEX_IGNORE[i])

\* '/'.join(entry.parts[-2:])
ParentKey(path, n) == BaseName(AbsPath(path)) \o "/" \o NodeOf(n).name

\* The value description is bound to before .lstrip('"').strip('"') is called on it.
Description(path, n) ==
    IF Truthy(DictGet(HTACCESS_MAPPING, ParentKey(path, n)))
    THEN DictGet(HTACCESS_MAPPING, ParentKey(path, n))
    ELSE IF Truthy(DictGet(HTACCESS_MAPPING, NodeOf(n).name))
    THEN DictGet(HTACCESS_MAPPING, NodeOf(n).name)
    ELSE PyStr(Mdash)

EntryType(path, n) ==
    IF is_dir(path, n) /\ ~is_symlink(path, n) THEN "folder"
    ELSE IF is_dir(path, n) /\ is_symlink(path, n) THEN "folder-shortcut"
    ELSE IF is_file(path, n) /\ is_symlink(path, n) THEN "file-shortcut"
    ELSE "file"

\* entry_path: os.path.join(entry.name, '') for a folder (os.name is not 'nt')
EntryPath(path, n) ==
    IF EntryType(path, n) = "folder" THEN NodeOf(n).name \o "/" ELSE NodeOf(n).name

Row(path, n) ==
    Item("row", Quote(EntryPath(path, n)), "#" \o EntryType(path, n), NodeOf(n).name,
         Strip(LStrip(Description(path, n).s, "\""), "\""),
         IF is_file(path, n) THEN Str(IntOf(st_size(path, n))) ELSE "-1",
         IF is_file(path, n) THEN pretty_size(st_size(path, n)) ELSE Mdash,
         "")

Running == outcome = "running" /\ stack # <<>>

AtEntry == Running /\ Cur.pc = "loop" /\ Cur.i <= Len(Cur.sorted_entries)

Listed == AtEntry /\ ~IsOutputFile(NodeOf(Entry).name) /\ ~IsIgnored(NodeOf(Entry).name)

\* Past line 191: the recursive call has returned, or there was none to make.
RowReady ==
    \/ Running /\ Cur.pc = "row"
    \/ Listed /\ ~(is_dir(Cur.path, Entry) /\ opts.recursive)

Writable == is_symlink(Cur.path, Entry) \/ access_W_OK(Cur.path, Entry)

StatOk == (is_file(Cur.path, Entry) \/ is_dir(Cur.path, Entry)) => stat_ok(Cur.path, Entry)

\* open(index_path, 'w') raises: print and return
OpenFail ==
    /\ Running /\ Cur.pc = "open"
    /\ ~can_create(Cur.dir)
    /\ Return
    /\ UNCHANGED <<env, opts, CONTENT, files, f_bytes, result>>

\* Lines 97 to 175: open the index file, rewrite for SUBDIRS, write the header, the
\* svg, the go-up row and the custom rows, and sort the directory's entries.
OpenAndWriteHead ==
    /\ Running /\ Cur.pc = "open"
    /\ can_create(Cur.dir)
    /\ LET content == IF InSubdirs(Cur.path) THEN Rewrite(CONTENT) ELSE CONTENT
           go_up   == GoUp(Cur.path)
       IN  /\ CONTENT' = content
           /\ files' = (Cur.path :> [dir |-> Cur.dir, open |-> TRUE,
                                     body |-> Preamble(content, go_up)]) @@ files
           /\ stack' = [stack EXCEPT ![Len(stack)] =
                           [Cur EXCEPT !.go_up = go_up,
                                       !.sorted_entries = sorted(Cur.path, glob(Cur.dir, GlobPatt)),
                                       !.i = 1,
                                       !.pc = "loop"]]
    /\ UNCHANGED <<env, opts, outcome, f_bytes, result>>

\* Line 181: the index file itself is not listed
SkipOutputFile ==
    /\ AtEntry
    /\ IsOutputFile(NodeOf(Entry).name)
    /\ Continue
    /\ UNCHANGED <<env, opts, CONTENT, files, outcome, f_bytes, result>>

\* Line 185: ignored entries
SkipIgnored ==
    /\ AtEntry
    /\ ~IsOutputFile(NodeOf(Entry).name)
    /\ IsIgnored(NodeOf(Entry).name)
    /\ Continue
    /\ UNCHANGED <<env, opts, CONTENT, files, outcome, f_bytes, result>>

\* Lines 190, 191: process_dir(entry, opts, content)
Recurse ==
    /\ Listed
    /\ is_dir(Cur.path, Entry) /\ opts.recursive
    /\ stack' = Append([stack EXCEPT ![Len(stack)].pc = "row"],
                       Frame(Append(Cur.path, Entry), Resolve(Cur.path, Entry)))
    /\ UNCHANGED <<env, opts, CONTENT, files, outcome, f_bytes, result>>

\* Line 194: not a link and not writable
SkipUnwritable ==
    /\ RowReady
    /\ ~Writable
    /\ Continue
    /\ UNCHANGED <<env, opts, CONTENT, files, outcome, f_bytes, result>>

\* Lines 206 to 219: stat raises
SkipStatError ==
    /\ RowReady
    /\ Writable
    /\ ~StatOk
    /\ Continue
    /\ UNCHANGED <<env, opts, CONTENT, files, outcome, f_bytes, result>>

\* Line 244: description is no str, so .lstrip raises AttributeError; nothing
\* catches it, every active call is left and the interpreter exits.
RaiseInRow ==
    /\ RowReady
    /\ Writable
    /\ StatOk
    /\ Description(Cur.path, Entry).t # "str"
    /\ stack' = <<>>
    /\ outcome' = "crashed"
    /\ UNCHANGED <<env, opts, CONTENT, files, f_bytes, result>>

\* Lines 200 to 260: the entry's row
WriteRow ==
    /\ RowReady
    /\ Writable
    /\ StatOk
    /\ Description(Cur.path, Entry).t = "str"
    /\ files' = [files EXCEPT ![Cur.path].body = Append(@, Row(Cur.path, Entry))]
    /\ Continue
    /\ UNCHANGED <<env, opts, CONTENT, outcome, f_bytes, result>>

\* Lines 262 to 274: the closing markup, the footer, close
WriteTail ==
    /\ Running /\ Cur.pc = "loop" /\ Cur.i > Len(Cur.sorted_entries)
    /\ files' = [files EXCEPT
                    ![Cur.path].body = @ \o <<Item("close", "", "", "", "", "", "", "")>>
                        \o (IF Truthy(CONTENT["footer"])
                            THEN <<Item("footer", "", "", "", "", "", "", CONTENT["footer"].s)>>
                            ELSE <<>>),
                    ![Cur.path].open = FALSE]
    /\ Return
    /\ UNCHANGED <<env, opts, CONTENT, f_bytes, result>>

(***************************************************************************)
(* The runs                                                                *)
(***************************************************************************)

NoFiles == [p \in {} |-> [dir |-> 0, open |-> FALSE, body |-> <<>>]]

\* python indexer.py [--filter F] [--output-file O] [--recursive], started in top_dir
Init ==
    /\ env \in [present : Trees, htaccess : HtaccessFiles,
                top_creatable : BOOLEAN, TOPDIR_UP : BOOLEAN]
    /\ opts \in [filter : {"", "*.txt"}, output_file : {DEFAULT_OUTPUT_FILE, "out.htm"},
                 recursive : BOOLEAN]
    /\ CONTENT = LoadContent(env.htaccess)
    /\ stack = <<Frame(<<>>, 0)>>
    /\ files = NoFiles
    /\ outcome = "running"
    /\ f_bytes = Bytes(0)
    /\ result = ""

Next ==
    \/ OpenFail
    \/ OpenAndWriteHead
    \/ SkipOutputFile
    \/ SkipIgnored
    \/ Recurse
    \/ SkipUnwritable
    \/ SkipStatError
    \/ RaiseInRow
    \/ WriteRow
    \/ WriteTail

Spec == Init /\ [][Next]_vars

\* pretty_size called on one byte count
InitSize ==
    /\ env = [present |-> {}, htaccess |-> <<>>, top_creatable |-> TRUE, TOPDIR_UP |-> TRUE]
    /\ opts = [filter |-> "", output_file |-> DEFAULT_OUTPUT_FILE, recursive |-> FALSE]
    /\ CONTENT = EmptyDict
    /\ stack = <<>>
    /\ files = NoFiles
    /\ outcome = "done"
    /\ f_bytes \in SizeInputs
    /\ result = ""

CallPrettySize ==
    /\ result = ""
    /\ result' = pretty_size(f_bytes)
    /\ UNCHANGED <<env, opts, CONTENT, stack, files, outcome, f_bytes>>

NextSize == CallPrettySize

SpecSize == InitSize /\ [][NextSize]_vars

(***************************************************************************)
(* The claims                                                              *)
(***************************************************************************)

\* The calls that opened their index file, by path.
Calls == DOMAIN files

\* The items of kind k that call p wrote, in the order written.
ItemsOf(p, k) == SelectSeq(files[p].body, LAMBDA it : it.k = k)

\* The paths of the active calls.
ActivePaths == {stack[j].path : j \in 1..Len(stack)}

PathNames(p) == {Tree[p[j]].name : j \in 1..Len(p)}

\* C1: every rendered directory whose path holds a SUBDIRS marker gets the loaded
\* header with each SUBDIR_REPLACE pair applied exactly once and every custom href
\* prefixed with exactly one "../"; every other rendered directory gets the loaded
\* header and the loaded hrefs unchanged.
ClaimC1 ==
    \A p \in Calls :
        /\ \A j \in 1..Len(ItemsOf(p, "header")) :
              ItemsOf(p, "header")[j].text =
                  IF InSubdirs(p) THEN ReplaceAll(HeaderText, SUBDIR_REPLACE) ELSE HeaderText
        /\ Len(ItemsOf(p, "custom")) = Len(CUSTOM_INDEX)
        /\ \A j \in 1..Len(ItemsOf(p, "custom")) :
              ItemsOf(p, "custom")[j].href =
                  IF InSubdirs(p) THEN "../" \o CUSTOM_INDEX[j].href ELSE CUSTOM_INDEX[j].href

IsFolderRow(it) == it.icon \in {"#folder", "#folder-shortcut"}

\* C2: in every rendered table the rows of kind folder or folder-shortcut come
\* before the rows of kind file or file-shortcut, and within each group the rows
\* are in ascending order of name.
ClaimC2 ==
    \A p \in Calls :
        LET rows == ItemsOf(p, "row")
        IN  \A a, b \in 1..Len(rows) :
                a < b =>
                    /\ ~(~IsFolderRow(rows[a]) /\ IsFolderRow(rows[b]))
                    /\ IsFolderRow(rows[a]) = IsFolderRow(rows[b])
                           => StrLess(rows[a].name, rows[b].name)

\* The names the ignore policy and the output self-exclusion cover.
Excluded(name) ==
    \/ At(name, 1) \in {".", "_"}
    \/ \E j \in 1..Len(INDEX_IGNORE) :
          \E a \in 1..Len(name) : \E b \in a..Len(name) : SubSeq(name, a, b) = INDEX_IGNORE[j]
    \/ Lower(name) = Lower(opts.output_file)

\* C3: no row is written for an entry whose name starts with "." or "_", holds an
\* INDEX_IGNORE string or equals the output file name ignoring case, and no call is
\* ever made for such an entry or below it.
TheoremC3 ==
    /\ \A p \in Calls : \A j \in 1..Len(ItemsOf(p, "row")) : ~Excluded(ItemsOf(p, "row")[j].name)
    /\ \A p \in Calls \cup ActivePaths : \A name \in PathNames(p) : ~Excluded(name)

\* C3's case: a recursive run whose loop has passed an excluded directory.
WitnessC3 ==
    /\ opts.recursive
    /\ \E j \in 1..Len(stack) : \E k \in 1..(stack[j].i - 1) :
          /\ k <= Len(stack[j].sorted_entries)
          /\ Excluded(NodeOf(stack[j].sorted_entries[k]).name)
          /\ NodeOf(stack[j].sorted_entries[k]).kind = "dir"

\* The lookup table as the AddDescription directives alone define it.
Directives == AddDescriptions(EmptyDict, env.htaccess)

DirectiveFor(key) == IF key \in DOMAIN Directives THEN Directives[key].s ELSE ""

ExpectedDescription(parent, name) ==
    LET value == IF DirectiveFor(parent \o "/" \o name) # "" THEN DirectiveFor(parent \o "/" \o name)
                 ELSE IF DirectiveFor(name) # "" THEN DirectiveFor(name)
                 ELSE Mdash
    IN  Strip(value, "\"")

\* C4: the description of every row is the quote-stripped AddDescription value for
\* "<parent directory name>/<entry name>" when that is not empty, else the one for
\* the entry name when not empty, else the em-dash; and looking a description up
\* never fails, whatever the entry is called.
ClaimC4 ==
    /\ outcome # "crashed"
    /\ \A p \in Calls : \A j \in 1..Len(ItemsOf(p, "row")) :
          ItemsOf(p, "row")[j].description =
              ExpectedDescription(BaseName(AbsPath(p)), ItemsOf(p, "row")[j].name)

UnitNames == <<"bytes", "KB", "MB", "GB", "TB", "PB">>

\* The index of the largest threshold 1024 ** k, k in 0..5, that is <= b (0 for b = 0).
UnitIndex(b) == IF TopIndex(b) <= 1 THEN 0 ELSE IF TopIndex(b) >= 6 THEN 5 ELSE TopIndex(b) - 1

\* floor(b / 1024 ** UnitIndex(b))
ExactAmount(b) ==
    IF UnitIndex(b) = 5 THEN b[6] + Base * b[7] ELSE b[UnitIndex(b) + 1]

ExpectedSize(b) ==
    Str(ExactAmount(b)) \o " "
        \o (IF UnitIndex(b) = 0 /\ ExactAmount(b) = 1 THEN "byte" ELSE UnitNames[UnitIndex(b) + 1])

\* C5: pretty_size(b) is floor(b / threshold) for the largest threshold <= b, a
\* space and the unit, never rounded up, "byte" exactly for 1 byte.
ClaimC5 == result # "" => result = ExpectedSize(f_bytes)

\* A directory of the tree that the ignore policy does not cut off from top_dir.
RECURSIVE Reachable(_)
Reachable(d) ==
    IF d = 0 THEN TRUE
    ELSE /\ d \in env.present
         /\ Tree[d].kind = "dir"
         /\ ~Excluded(Tree[d].name)
         /\ Reachable(Tree[d].parent)

HasOutput(d) == \E p \in Calls : files[p].dir = d

EveryOpenSucceeds == env.top_creatable /\ \A d \in env.present : Tree[d].kind = "dir" => Tree[d].writable

\* C6: when the run is over, with recursive=true every directory reachable from
\* top_dir through directories the ignore policy keeps has its output file, and with
\* recursive=false only top_dir has one.  (Stated for the runs in which every index
\* file can be created.)
ClaimC6 ==
    (outcome # "running" /\ EveryOpenSucceeds) =>
        IF opts.recursive
        THEN \A d \in {0} \cup env.present : Reachable(d) => HasOutput(d)
        ELSE HasOutput(0) /\ \A d \in env.present : ~HasOutput(d)

UpHref(p) == ItemsOf(p, "up")[1].href

\* C7: the go-up row links to ".." in every call made for a subdirectory, whatever
\* TOPDIR_UP is; it links to "." only in the top-level call, and only when TOPDIR_UP
\* is false and top_dir's path holds no SUBDIRS marker.
ClaimC7 ==
    \A p \in Calls :
        /\ p # <<>> => UpHref(p) = ".."
        /\ UpHref(p) = "." => (p = <<>> /\ ~env.TOPDIR_UP /\ ~InSubdirs(<<>>))

HasClosingMarkup(p) == Len(ItemsOf(p, "close")) = 1

\* C8: an index file a call opened is closed when the call is over; an error while a
\* row is built does not end the run, and when the run is over every index file
\* written holds its closing markup.
ClaimC8 ==
    /\ \A p \in Calls : files[p].open => p \in ActivePaths
    /\ outcome # "crashed"
    /\ outcome # "running" => \A p \in Calls : HasClosingMarkup(p)

\* The directories a path runs through before its last one.
Above(p) == {Resolve(SubSeq(p, 1, j - 1), p[j]) : j \in 1..(Len(p) - 1)} \cup (IF p = <<>> THEN {} ELSE {0})

\* C9: a directory whose index file cannot be created gets nothing written and
\* none of its children is visited; and when that directory is top_dir the run
\* ends as a failure, not as a normal completion.
ClaimC9 ==
    /\ \A p \in Calls : can_create(files[p].dir)
    /\ \A p \in Calls \cup ActivePaths : \A d \in Above(p) : can_create(d)
    /\ ~env.top_creatable => outcome # "done"

\* C10: a symbolic link to a directory is never recursed into, and no directory is
\* rendered more than once in a run.
ClaimC10 ==
    /\ \A p \in Calls \cup ActivePaths : \A j \in 1..Len(p) : Tree[p[j]].kind # "link"
    /\ \A p, q \in Calls : files[p].dir = files[q].dir => p = q

=============================================================================
